---- MODULE Spec2Model ----
(***************************************************************************)
(* react-inlinesvg 2.1.0 (src/src/index.tsx): the InlineSVG component, its *)
(* module-wide cacheStore and the fetch requests it has in flight.         *)
(*                                                                         *)
(* A consumer is one InlineSVG instance.  Every action below is one task   *)
(* of the host's single thread: a React render/commit pass (mount, prop    *)
(* change, unmount) or one promise callback of a fetch chain.  React 16     *)
(* runs setState callbacks and the updates they schedule inside the same   *)
(* task, so an action carries the handler to the end of that chain.        *)
(*                                                                         *)
(* Strings are sequences of tokens; a token stands for the literal text    *)
(* given beside it.                                                        *)
(***************************************************************************)
EXTENDS Integers, Sequences, FiniteSets, Bags, TLC

\* ---------------------------------------------------------------- bounds
NumConsumers == 2
MaxChanges == 2
MaxSrcLen == 3
MaxDepth == 2
MaxChildren == 2

Consumers == 1..NumConsumers

\* ---------------------------------------------------------------- STATUS
FAILED == "failed"
LOADED == "loaded"
LOADING == "loading"
PENDING == "pending"
READY == "ready"
UNSUPPORTED == "unsupported"

STATUS == {FAILED, LOADED, LOADING, PENDING, READY, UNSUPPORTED}

\* ---------------------------------------------------------------- tokens
TData == "data:image/svg+xml"
TBase64 == ";base64"
TComma == ","
TSvg == "<svg"
TPct == "%3Csvg"       \* percent-encoded "<svg"
TB64 == "PHN2Zw=="     \* base64 of "<svg"
TUrlA == "https://x/a.svg"
TUrlB == "https://x/b.svg"
TOk == "/>"            \* well-formed rest of an SVG document
TJunk == "junk"        \* text that is no SVG document

EmptyString == <<>>
UrlA == <<TUrlA>>
UrlB == <<TUrlB>>

\* the source identifiers of the concurrency specification
Sources == {EmptyString, UrlA, UrlB}

\* the source identifiers of the resolver specification
SrcTokens == {TData, TBase64, TComma, TSvg, TPct, TB64, TUrlA}

SrcUniverse == UNION {[1..n -> SrcTokens] : n \in 0..MaxSrcLen}

\* ------------------------------------------------------- sequence helpers
RECURSIVE IndexFrom(_, _, _)
\* least i >= from with s[i] = t, or 0
IndexFrom(s, t, from) ==
    IF from > Len(s) THEN 0
    ELSE IF s[from] = t THEN from
    ELSE IndexFrom(s, t, from + 1)

Contains(s, t) == IndexFrom(s, t, 1) > 0

\* ---------------------------------------------------------- load: resolve
NoMatch == [matched |-> FALSE]

\* src.match(/data:image\/svg[^,]*?(;base64)?,(.*)/): the leftmost
\* "data:image/svg", the first comma after it; group 1 is ";base64" when it
\* stands right before that comma, group 2 is the rest.
DataURIMatch(src) ==
    LET d == IndexFrom(src, TData, 1)
        c == IF d = 0 THEN 0 ELSE IndexFrom(src, TComma, d + 1)
    IN  IF d = 0 \/ c = 0 THEN NoMatch
        ELSE [matched |-> TRUE,
              base64  |-> (c - 1 > d /\ src[c - 1] = TBase64),
              payload |-> SubSeq(src, c + 1, Len(src))]

Thrown == [thrown |-> TRUE]
Value(v) == [thrown |-> FALSE, value |-> v]

\* atob(s): throws on a character outside the base64 alphabet and on
\* padding before the end.
Atob(s) ==
    IF \E i \in 1..Len(s) : s[i] # TB64 \/ i < Len(s) THEN Thrown
    ELSE Value([i \in 1..Len(s) |-> TSvg])

\* decodeURIComponent(s): every escape is replaced by its character; none
\* of the tokens holds a malformed escape.
DecodeURIComponent(s) ==
    Value([i \in 1..Len(s) |-> IF s[i] = TPct THEN TSvg ELSE s[i]])

NoInline == Value(<<>>)

\* lines 274-281: inlineSrc; undefined and '' are the same to line 283
InlineSrc(src) ==
    LET m == DataURIMatch(src)
    IN  IF m.matched
        THEN IF m.base64 THEN Atob(m.payload) ELSE DecodeURIComponent(m.payload)
        ELSE IF Contains(src, TSvg) THEN Value(src)
        ELSE NoInline

\* ------------------------------------------------------------ the state
VARIABLES
    env,         \* the host: canUseDOM(), isSupportedEnvironment(), fetch
    cacheStore,  \* line 53: source identifier -> IStorageItem
    props,       \* per consumer: src, cacheRequests
    state,       \* per consumer: IState
    isActive,    \* per consumer: line 69
    lifecycle,   \* per consumer: "unborn", "mounted" or "unmounted"
    inflight,    \* the bag of fetch chains that have not settled
    changes,     \* how many times a parent has changed an instance's src
    last,        \* the task that ran last
    svg          \* the document node updateSVGAttributes works on

vars ==
    <<env, cacheStore, props, state, isActive, lifecycle, inflight, changes,
      last, svg>>

\* the host a page runs in; it does not change while the page lives
Envs == [canUseDOM : BOOLEAN, supported : BOOLEAN, fetchThrows : BOOLEAN]

NoElement == [present |-> FALSE]
Element(content) == [present |-> TRUE, markup |-> content]

\* lines 59-64, with props.src and props.cacheRequests
InitialState(cs, src, cacheRequests) ==
    [content  |-> EmptyString,
     element  |-> NoElement,
     hasCache |-> (cacheRequests /\ src \in DOMAIN cs),
     status   |-> PENDING]

\* line 73
DefaultProps == [src |-> EmptyString, cacheRequests |-> TRUE]

\* the mutable world the handlers work on; events collects what a task
\* calls outside of it: fetch, the queued callbacks, onLoad and onError
World ==
    [env |-> env, cacheStore |-> cacheStore, props |-> props, state |-> state,
     isActive |-> isActive, lifecycle |-> lifecycle, inflight |-> inflight,
     events |-> <<>>]

Commit(w) ==
    /\ env' = w.env
    /\ cacheStore' = w.cacheStore
    /\ props' = w.props
    /\ state' = w.state
    /\ isActive' = w.isActive
    /\ lifecycle' = w.lifecycle
    /\ inflight' = w.inflight
    /\ svg' = svg

Emit(w, e) == [w EXCEPT !.events = Append(@, e)]

\* ------------------------------------------------------------- messages
MsgUnsupported == "Browser does not support SVG"
MsgMissingSrc == "Missing src"
MsgNode == "Could not convert the src to a DOM Node"
MsgElement == "Could not convert the src to a React element"
MsgNotFound == "Not Found"
MsgContentType == "Content type isn't valid"
MsgNetwork == "Failed to fetch"
MsgFetchThrew == "fetch is not defined"

\* ------------------------------------------------------------- handlers
\* lines 307-327
handleError(w, c, message) ==
    LET status == IF message = MsgUnsupported THEN UNSUPPORTED ELSE FAILED
    IN  IF w.isActive[c]
        THEN Emit([w EXCEPT !.state[c].status = status],
                  [type |-> "onError", consumer |-> c, message |-> message])
        ELSE w

\* convert(svgText, {nodeOnly: true}) gives an SVGSVGElement (line 197) when
\* the text starts with an <svg element
CanConvert(content) == Len(content) > 0 /\ content[1] = TSvg

\* lines 233-249 with getNode (190-231) and the READY branch of
\* componentDidUpdate (115-120)
getElement(w, c) ==
    LET content == w.state[c].content
    IN  IF CanConvert(content)
        THEN LET w1 == [w EXCEPT !.state[c].element = Element(content),
                                 !.state[c].status = READY]
             IN  IF w.state[c].status # READY /\ w.env.canUseDOM
                 THEN Emit(w1, [type |-> "onLoad", consumer |-> c,
                                src |-> w.props[c].src,
                                isCached |-> w.state[c].hasCache])
                 ELSE w1
        ELSE handleError(handleError(w, c, MsgNode), c, MsgElement)

\* handleLoad without the isActive test of line 296
handleLoadUnguarded(w, c, content) ==
    getElement([Emit(w, [type |-> "handleLoad", consumer |-> c,
                         content |-> content])
                   EXCEPT !.state[c].content = content,
                          !.state[c].status = LOADED], c)

\* lines 294-305
handleLoad(w, c, content) ==
    LET w1 == Emit(w, [type |-> "handleLoad", consumer |-> c, content |-> content])
    IN  IF w1.isActive[c]
        THEN getElement([w1 EXCEPT !.state[c].content = content,
                                   !.state[c].status = LOADED], c)
        ELSE w1

NewItem == [content |-> EmptyString, status |-> LOADING, queue |-> <<>>]

\* cacheStore[src] = item
PutItem(cs, src, item) ==
    [k \in DOMAIN cs \cup {src} |-> IF k = src THEN item ELSE cs[k]]

\* delete cacheStore[src]
DeleteItem(cs, src) == [k \in DOMAIN cs \ {src} |-> cs[k]]

\* lines 329-337 and 379-381: the synchronous part of request
request(w, c) ==
    LET cacheRequests == w.props[c].cacheRequests
        src == w.props[c].src
        w1 == IF cacheRequests
              THEN [w EXCEPT !.cacheStore = PutItem(@, src, NewItem)]
              ELSE w
        w2 == Emit(w1, [type |-> "fetch", consumer |-> c, src |-> src])
    IN  IF w.env.fetchThrows
        THEN handleError(w2, c, MsgFetchThrew)
        ELSE [w2 EXCEPT !.inflight =
                 @ (+) SetToBag({[owner |-> c, src |-> src,
                                  cacheRequests |-> cacheRequests]})]

\* the callback of load's setState without the LOADING branch of lines
\* 266-267: a pending entry is taken for a missing one
loadCallbackNoCoalesce(w, c) ==
    LET cacheRequests == w.props[c].cacheRequests
        src == w.props[c].src
        inlineSrc == InlineSrc(src)
    IN  IF cacheRequests /\ src \in DOMAIN w.cacheStore
           /\ w.cacheStore[src].status = LOADED
        THEN handleLoad(w, c, w.cacheStore[src].content)
        ELSE IF inlineSrc.thrown
        THEN Emit([w EXCEPT !.isActive[c] = FALSE, !.lifecycle[c] = "unmounted"],
                  [type |-> "throw", consumer |-> c])
        ELSE IF inlineSrc.value # EmptyString
        THEN handleLoad(w, c, inlineSrc.value)
        ELSE request(w, c)

\* the callback of load's setState without the LOADED branch of lines
\* 268-269: a loaded entry is fetched again
loadCallbackRefetch(w, c) ==
    LET cacheRequests == w.props[c].cacheRequests
        src == w.props[c].src
        inlineSrc == InlineSrc(src)
    IN  IF cacheRequests /\ src \in DOMAIN w.cacheStore
           /\ w.cacheStore[src].status = LOADING
        THEN [w EXCEPT !.cacheStore[src].queue = Append(@, c)]
        ELSE IF inlineSrc.thrown
        THEN Emit([w EXCEPT !.isActive[c] = FALSE, !.lifecycle[c] = "unmounted"],
                  [type |-> "throw", consumer |-> c])
        ELSE IF inlineSrc.value # EmptyString
        THEN handleLoad(w, c, inlineSrc.value)
        ELSE request(w, c)

\* the callback of load's setState reading the cache whatever cacheRequests
\* is (line 262 without its first operand)
loadCallbackAlwaysCached(w, c) ==
    LET src == w.props[c].src
        inlineSrc == InlineSrc(src)
    IN  IF src \in DOMAIN w.cacheStore
        THEN LET cache == w.cacheStore[src]
             IN  IF cache.status = LOADING
                 THEN [w EXCEPT !.cacheStore[src].queue = Append(@, c)]
                 ELSE IF cache.status = LOADED
                 THEN handleLoad(w, c, cache.content)
                 ELSE w
        ELSE IF inlineSrc.thrown
        THEN Emit([w EXCEPT !.isActive[c] = FALSE, !.lifecycle[c] = "unmounted"],
                  [type |-> "throw", consumer |-> c])
        ELSE IF inlineSrc.value # EmptyString
        THEN handleLoad(w, c, inlineSrc.value)
        ELSE request(w, c)

\* lines 260-289: the callback of load's setState
loadCallback(w, c) ==
    LET cacheRequests == w.props[c].cacheRequests
        src == w.props[c].src
        inlineSrc == InlineSrc(src)
    IN  IF cacheRequests /\ src \in DOMAIN w.cacheStore
        THEN LET cache == w.cacheStore[src]
             IN  IF cache.status = LOADING
                 THEN [w EXCEPT !.cacheStore[src].queue = Append(@, c)]
                 ELSE IF cache.status = LOADED
                 THEN handleLoad(w, c, cache.content)
                 ELSE w
        ELSE IF inlineSrc.thrown
        \* atob threw inside a commit-phase callback: React unmounts the tree
        THEN Emit([w EXCEPT !.isActive[c] = FALSE, !.lifecycle[c] = "unmounted"],
                  [type |-> "throw", consumer |-> c])
        ELSE IF inlineSrc.value # EmptyString
        THEN handleLoad(w, c, inlineSrc.value)
        ELSE request(w, c)

\* load without the reset of content and element of lines 256-257
loadNoReset(w, c) ==
    IF w.isActive[c]
    THEN loadCallback([w EXCEPT !.state[c].status = LOADING], c)
    ELSE w

\* lines 251-292
load(w, c) ==
    IF w.isActive[c]
    THEN loadCallback([w EXCEPT !.state[c].content = EmptyString,
                                !.state[c].element = NoElement,
                                !.state[c].status = LOADING], c)
    ELSE w

\* lines 56-67
construct(w, c, src, cacheRequests) ==
    [w EXCEPT !.props[c] = [src |-> src, cacheRequests |-> cacheRequests],
              !.state[c] = InitialState(w.cacheStore, src, cacheRequests),
              !.lifecycle[c] = "mounted"]

\* lines 77-105
componentDidMount(w, c) ==
    LET w1 == [w EXCEPT !.isActive[c] = TRUE]
    IN  IF ~w.env.canUseDOM THEN w1
        ELSE IF w1.state[c].status # PENDING THEN w1
        ELSE IF ~w.env.supported THEN handleError(w1, c, MsgUnsupported)
        ELSE IF w1.props[c].src = EmptyString THEN handleError(w1, c, MsgMissingSrc)
        ELSE load(w1, c)

\* lines 107-130, after the props of c were replaced; the READY branch is
\* part of getElement
componentDidUpdate(w, c, prevProps) ==
    IF ~w.env.canUseDOM THEN w
    ELSE IF prevProps.src # w.props[c].src
    THEN IF w.props[c].src = EmptyString
         THEN handleError(w, c, MsgMissingSrc)
         ELSE load(w, c)
    ELSE w

\* lines 132-134
componentWillUnmount(w, c) ==
    [w EXCEPT !.isActive[c] = FALSE, !.lifecycle[c] = "unmounted"]

RECURSIVE drainReversed(_, _, _)
\* the queued callbacks invoked last to first
drainReversed(w, queue, content) ==
    IF queue = <<>> THEN w
    ELSE drainReversed(handleLoad(w, queue[Len(queue)], content),
                       SubSeq(queue, 1, Len(queue) - 1), content)

RECURSIVE drain(_, _, _)
\* lines 364-368: every queued callback, first to last
drain(w, queue, content) ==
    IF queue = <<>> THEN w
    ELSE drain(handleLoad(w, Head(queue), content), Tail(queue), content)

\* the handler of the body text giving up when its owner is not active
onContentOwnerOnly(w, r, content) ==
    IF ~w.isActive[r.owner] THEN w
    ELSE LET w1 == handleLoad(w, r.owner, content)
         IN  IF r.cacheRequests /\ r.src \in DOMAIN w1.cacheStore
             THEN LET queue == w1.cacheStore[r.src].queue
                      w2 == [w1 EXCEPT !.cacheStore[r.src].content = content,
                                       !.cacheStore[r.src].status = LOADED]
                      w3 == drain(w2, queue, content)
                  IN  [w3 EXCEPT !.cacheStore[r.src].queue = <<>>]
             ELSE w1

\* lines 352-371: the handler of the body text
onContent(w, r, content) ==
    LET w1 == handleLoad(w, r.owner, content)
    IN  IF r.cacheRequests /\ r.src \in DOMAIN w1.cacheStore
        THEN LET queue == w1.cacheStore[r.src].queue
                 w2 == [w1 EXCEPT !.cacheStore[r.src].content = content,
                                  !.cacheStore[r.src].status = LOADED]
                 w3 == drain(w2, queue, content)
             IN  [w3 EXCEPT !.cacheStore[r.src].queue = <<>>]
        ELSE w1

\* the rejection handler telling the queued callbacks' consumers too
onRejectedFanOut(w, r, message) ==
    LET queue == IF r.cacheRequests /\ r.src \in DOMAIN w.cacheStore
                 THEN w.cacheStore[r.src].queue ELSE <<>>
        w1 == IF r.cacheRequests
              THEN [w EXCEPT !.cacheStore = DeleteItem(@, r.src)]
              ELSE w
        w2 == handleError(w1, r.owner, message)
    IN  IF queue = <<>> THEN w2 ELSE handleError(w2, Head(queue), message)

\* the rejection handler deleting the entry whatever cacheRequests is
onRejectedAlwaysDeletes(w, r, message) ==
    handleError([w EXCEPT !.cacheStore = DeleteItem(@, r.src)], r.owner, message)

\* lines 372-378
onRejected(w, r, message) ==
    LET w1 == IF r.cacheRequests
              THEN [w EXCEPT !.cacheStore = DeleteItem(@, r.src)]
              ELSE w
    IN  handleError(w1, r.owner, message)

\* what the server of src answers: a document naming src, or no document
Bodies(src) == {<<TSvg>> \o src \o <<TOk>>, <<TJunk>> \o src}

\* no document node is being transformed
NoSvg == [stage |-> "none"]

\* -------------------------------------------------------------- actions
EmptyStore == [k \in {} |-> NewItem]

Task(op, c, src) == [op |-> op, consumer |-> c, src |-> src]

Init ==
    /\ env \in Envs
    /\ cacheStore = EmptyStore
    /\ props = [c \in Consumers |-> DefaultProps]
    /\ state = [c \in Consumers |-> InitialState(EmptyStore, EmptyString, TRUE)]
    /\ isActive = [c \in Consumers |-> FALSE]
    /\ lifecycle = [c \in Consumers |-> "unborn"]
    /\ inflight = EmptyBag
    /\ changes = 0
    /\ last = Task("init", 0, EmptyString)
    /\ svg = NoSvg

\* instances are numbered in the order in which they are constructed
NextUnborn(c) ==
    /\ lifecycle[c] = "unborn"
    /\ \A d \in Consumers : d < c => lifecycle[d] # "unborn"

MountResult(c, src, cacheRequests) ==
    componentDidMount(construct(World, c, src, cacheRequests), c)

\* a render pass that mounts one instance: constructor, componentDidMount
Mount(c, src, cacheRequests) ==
    /\ NextUnborn(c)
    /\ Commit(MountResult(c, src, cacheRequests))
    /\ last' = Task("Mount", c, src)
    /\ UNCHANGED changes

SiblingsResult(c, src1, cacheRequests1, src2, cacheRequests2) ==
    LET w1 == construct(World, c, src1, cacheRequests1)
        w2 == construct(w1, c + 1, src2, cacheRequests2)
        w3 == componentDidMount(w2, c)
    IN  componentDidMount(w3, c + 1)

\* a render pass that mounts two instances: both constructors run in the
\* render phase, then both componentDidMount in the commit phase
MountSiblings(c, src1, cacheRequests1, src2, cacheRequests2) ==
    /\ NextUnborn(c)
    /\ c + 1 \in Consumers
    /\ Commit(SiblingsResult(c, src1, cacheRequests1, src2, cacheRequests2))
    /\ last' = Task("MountSiblings", c, src1)
    /\ UNCHANGED changes

SetSrcResult(c, src) ==
    componentDidUpdate([World EXCEPT !.props[c].src = src], c, props[c])

\* the parent renders a mounted instance with another src; cacheRequests
\* is the one the instance was mounted with
SetSrc(c, src) ==
    /\ lifecycle[c] = "mounted"
    /\ props[c].src # src
    /\ changes < MaxChanges
    /\ changes' = changes + 1
    /\ Commit(SetSrcResult(c, src))
    /\ last' = Task("SetSrc", c, src)

Unmount(c) ==
    /\ lifecycle[c] = "mounted"
    /\ Commit(componentWillUnmount(World, c))
    /\ last' = Task("Unmount", c, props[c].src)
    /\ UNCHANGED changes

Settled(r) == [World EXCEPT !.inflight = @ (-) SetToBag({r})]

DeliverResult(r, content) == onContent(Settled(r), r, content)

\* lines 338-371: the response of fetch chain r is accepted and its body
\* text arrives
Deliver(r, content) ==
    /\ BagIn(r, inflight)
    /\ content \in Bodies(r.src)
    /\ Commit(DeliverResult(r, content))
    /\ last' = Task("Deliver", r.owner, r.src)
    /\ UNCHANGED changes

\* why a fetch chain is rejected: the status is above 299 (line 342), the
\* content type is not accepted (line 346), or fetch or the body read fails
Rejections == {MsgNotFound, MsgContentType, MsgNetwork}

RejectResult(r, message) == onRejected(Settled(r), r, message)

\* lines 338-351 and 372-378: fetch chain r is rejected
Reject(r, message) ==
    /\ BagIn(r, inflight)
    /\ message \in Rejections
    /\ Commit(RejectResult(r, message))
    /\ last' = Task("Reject", r.owner, r.src)
    /\ UNCHANGED changes

Next ==
    \/ \E c \in Consumers, s \in Sources, u \in BOOLEAN : Mount(c, s, u)
    \/ \E c \in Consumers, s1 \in Sources, s2 \in Sources, u1 \in BOOLEAN,
          u2 \in BOOLEAN : MountSiblings(c, s1, u1, s2, u2)
    \/ \E c \in Consumers, s \in Sources : SetSrc(c, s)
    \/ \E c \in Consumers : Unmount(c)
    \/ \E r \in BagToSet(inflight) : \E content \in Bodies(r.src) :
          Deliver(r, content)
    \/ \E r \in BagToSet(inflight), m \in Rejections : Reject(r, m)

Spec == Init /\ [][Next]_vars

\* ---------------------------------------------- the resolver specification
\* one instance, mounted with any source identifier of the universe
NextResolve ==
    \/ \E s \in SrcUniverse, u \in BOOLEAN : Mount(1, s, u)
    \/ Unmount(1)
    \/ \E r \in BagToSet(inflight) : \E content \in Bodies(r.src) :
          Deliver(r, content)
    \/ \E r \in BagToSet(inflight), m \in Rejections : Reject(r, m)

SpecResolve == Init /\ [][NextResolve]_vars

\* ------------------------------------------------- every enabled operation
Range(s) == {s[i] : i \in DOMAIN s}

Count(s, x) == Cardinality({i \in DOMAIN s : s[i] = x})

\* the fetch chains of bag b for src, made with caching (or without)
ChainsFor(b, src, cacheRequests) ==
    LET rs == {r \in BagToSet(b) : r.src = src /\ r.cacheRequests = cacheRequests}
    IN  BagCardinality([r \in rs |-> b[r]])

\* the events of a given type that world w collected for consumer c
EventsFor(w, type, c) ==
    SelectSeq(w.events, LAMBDA e : e.type = type /\ e.consumer = c)

Fetched(w, c) == EventsFor(w, "fetch", c) # <<>>

\* P(w0, w1, c) for every load that can start in this state: w0 is the
\* world when c's componentDidMount or componentDidUpdate is entered with a
\* src for which it calls load(), w1 the world when it has returned
ForEveryLoad(P(_, _, _), srcs) ==
    /\ \A c \in Consumers, s \in srcs \ {EmptyString}, u \in BOOLEAN :
          NextUnborn(c) /\ env.canUseDOM /\ env.supported =>
              LET w0 == construct(World, c, s, u)
              IN  P(w0, componentDidMount(w0, c), c)
    /\ \A c \in Consumers, s \in srcs \ {EmptyString} :
          lifecycle[c] = "mounted" /\ props[c].src # s /\ env.canUseDOM =>
              LET w0 == [World EXCEPT !.props[c].src = s]
              IN  P(w0, componentDidUpdate(w0, c, props[c]), c)
    /\ \A c \in Consumers, s1 \in srcs, s2 \in srcs, u1 \in BOOLEAN,
          u2 \in BOOLEAN :
          NextUnborn(c) /\ c + 1 \in Consumers /\ env.canUseDOM
              /\ env.supported =>
              LET w0 == construct(construct(World, c, s1, u1), c + 1, s2, u2)
                  w1 == componentDidMount(w0, c)
                  w2 == componentDidMount(w1, c + 1)
              IN  /\ s1 # EmptyString => P(w0, w1, c)
                  /\ s2 # EmptyString => P(w1, w2, c + 1)

\* P(w1, r, content) for every fetch chain r that can deliver content
ForEveryDelivery(P(_, _, _)) ==
    \A r \in BagToSet(inflight) : \A content \in Bodies(r.src) :
        P(DeliverResult(r, content), r, content)

\* P(w1, r) for every fetch chain r that can be rejected
ForEveryRejection(P(_, _)) ==
    \A r \in BagToSet(inflight), m \in Rejections : P(RejectResult(r, m), r)

\* P(w1) for every task that can run in this state
ForEveryTask(P(_), srcs) ==
    /\ \A c \in Consumers, s \in srcs, u \in BOOLEAN :
          NextUnborn(c) => P(MountResult(c, s, u))
    /\ \A c \in Consumers, s1 \in srcs, s2 \in srcs, u1 \in BOOLEAN,
          u2 \in BOOLEAN :
          NextUnborn(c) /\ c + 1 \in Consumers =>
              P(SiblingsResult(c, s1, u1, s2, u2))
    /\ \A c \in Consumers, s \in srcs :
          lifecycle[c] = "mounted" /\ props[c].src # s => P(SetSrcResult(c, s))
    /\ \A c \in Consumers :
          lifecycle[c] = "mounted" => P(componentWillUnmount(World, c))
    /\ ForEveryDelivery(LAMBDA w, r, content : P(w))
    /\ ForEveryRejection(LAMBDA w, r : P(w))

\* ------------------------------------------------------------------ C1
C1_Coalesces(w0, w1, c) ==
    LET src == w0.props[c].src
    IN  (/\ w0.props[c].cacheRequests
         /\ src \in DOMAIN w0.cacheStore
         /\ w0.cacheStore[src].status = LOADING)
        => /\ w1.cacheStore[src].queue = Append(w0.cacheStore[src].queue, c)
           /\ ~Fetched(w1, c)
           /\ w1.inflight = w0.inflight

\* C1: among the fetch chains made with caching enabled at most one per
\* source identifier is in flight, in every reachable state; and a load of
\* an identifier whose cache entry is LOADING appends the consumer to that
\* entry's queue and calls fetch for nothing.
C1_OneRequestPerSource ==
    /\ \A r \in BagToSet(inflight) :
          r.cacheRequests => ChainsFor(inflight, r.src, TRUE) = 1
    /\ ForEveryLoad(C1_Coalesces, Sources)

\* a second consumer has just been queued on the entry of the one chain in
\* flight for its src
C1_Witness ==
    /\ last.op \in {"Mount", "SetSrc"}
    /\ last.src \in DOMAIN cacheStore
    /\ cacheStore[last.src].status = LOADING
    /\ cacheStore[last.src].queue = <<last.consumer>>
    /\ ChainsFor(inflight, last.src, TRUE) = 1
    /\ \E r \in BagToSet(inflight) : r.src = last.src /\ r.owner # last.consumer

\* ------------------------------------------------------------------ C2
\* the mounted consumers that wait for chain r: its owner and the queued
\* ones, as long as their src is still the one of the chain
WaitingFor(r) ==
    {c \in Consumers :
        /\ lifecycle[c] = "mounted"
        /\ props[c].src = r.src
        /\ props[c].cacheRequests
        /\ \/ c = r.owner
           \/ r.src \in DOMAIN cacheStore /\ c \in Range(cacheStore[r.src].queue)}

C2_AllSettle(r, status) ==
    r.cacheRequests /\ Cardinality(WaitingFor(r)) >= 2 =>
        \A c \in WaitingFor(r) : state'[c].status = status

\* C2: when the one fetch chain of an identifier that two or more mounted
\* consumers load with caching settles, all of them reach the same terminal
\* status: READY after a delivery (FAILED when the text is no SVG), FAILED
\* after a rejection.
C2_SameOutcome ==
    [][/\ \A r \in BagToSet(inflight) : \A content \in Bodies(r.src) :
             Deliver(r, content) =>
                 C2_AllSettle(r, IF CanConvert(content) THEN READY ELSE FAILED)
       /\ \A r \in BagToSet(inflight), m \in Rejections :
             Reject(r, m) => C2_AllSettle(r, FAILED)]_vars

\* ------------------------------------------------------------------ C3
\* the texts a load of src can hand to handleLoad
ContentsOf(src) ==
    LET inlineSrc == InlineSrc(src)
    IN  IF inlineSrc.thrown THEN {}
        ELSE IF inlineSrc.value # EmptyString THEN {inlineSrc.value}
        ELSE Bodies(src)

\* C3: the content and the document tree of a mounted consumer are never
\* those of another identifier than its current src: a completion for a
\* src it has been moved away from leaves its state alone.
C3_NoStaleContent ==
    \A c \in Consumers :
        lifecycle[c] = "mounted" /\ props[c].src # EmptyString =>
            /\ state[c].content # EmptyString =>
                  state[c].content \in ContentsOf(props[c].src)
            /\ state[c].element.present =>
                  state[c].element.markup \in ContentsOf(props[c].src)

\* ------------------------------------------------------------------ C4
C4_Untouched(w) ==
    \A c \in Consumers :
        lifecycle[c] = "unmounted" =>
            /\ ~isActive[c]
            /\ ~w.isActive[c]
            /\ w.lifecycle[c] = "unmounted"
            /\ w.state[c] = state[c]
            /\ EventsFor(w, "onLoad", c) = <<>>
            /\ EventsFor(w, "onError", c) = <<>>

\* C4: after componentWillUnmount the active flag of a consumer stays
\* false, and no task (delivery, rejection, queue fan-out, another
\* consumer's render pass) changes its status, content or element or calls
\* its onLoad or onError.
C4_TeardownIsFinal == ForEveryTask(C4_Untouched, Sources)

\* a fetch chain has just delivered to an owner that was unmounted while
\* it was loading
C4_Witness ==
    /\ last.op = "Deliver"
    /\ lifecycle[last.consumer] = "unmounted"
    /\ state[last.consumer].status = LOADING
    /\ props[last.consumer].src = last.src

\* ------------------------------------------------------------------ C5
C5_Hit(w0, w1, c) ==
    LET src == w0.props[c].src
    IN  (/\ w0.props[c].cacheRequests
         /\ src \in DOMAIN w0.cacheStore
         /\ w0.cacheStore[src].status = LOADED)
        => /\ ~Fetched(w1, c)
           /\ w1.inflight = w0.inflight
           /\ w1.cacheStore = w0.cacheStore
           /\ EventsFor(w1, "handleLoad", c) =
                 <<[type |-> "handleLoad", consumer |-> c,
                    content |-> w0.cacheStore[src].content]>>
           /\ w1.state[c].content = w0.cacheStore[src].content
           /\ w1.state[c].status \in {READY, FAILED}

\* C5: a load, with caching enabled, of an identifier whose cache entry is
\* LOADED calls fetch for nothing and hands the stored content to the
\* consumer inside the same task: when the render pass ends the consumer
\* holds that content and has left LOADING.
C5_CacheHit == ForEveryLoad(C5_Hit, Sources)

\* a consumer constructed when the entry of its src existed has just been
\* mounted and is READY with the entry's content
C5_Witness ==
    /\ last.op = "Mount"
    /\ state[last.consumer].hasCache
    /\ last.src \in DOMAIN cacheStore
    /\ cacheStore[last.src].status = LOADED
    /\ state[last.consumer].status = READY
    /\ state[last.consumer].content = cacheStore[last.src].content

\* ------------------------------------------------------------------ C6
ThrewOnFetch(w, c) ==
    \E i \in DOMAIN w.events :
        /\ w.events[i].type = "onError"
        /\ w.events[i].consumer = c
        /\ w.events[i].message = MsgFetchThrew

\* C6: when a network load made with caching enabled fails (the chain is
\* rejected, or calling fetch throws), the requesting consumer, if mounted,
\* is FAILED and the cache holds no entry for the identifier afterwards.
C6_FailurePurges ==
    [][/\ \A r \in BagToSet(inflight), m \in Rejections :
             Reject(r, m) /\ r.cacheRequests =>
                 /\ r.src \notin DOMAIN cacheStore'
                 /\ lifecycle[r.owner] = "mounted" =>
                       state'[r.owner].status = FAILED
       /\ \A c \in Consumers, s \in Sources :
             Mount(c, s, TRUE) /\ ThrewOnFetch(MountResult(c, s, TRUE), c) =>
                 /\ s \notin DOMAIN cacheStore'
                 /\ state'[c].status = FAILED
       /\ \A c \in Consumers, s \in Sources :
             /\ SetSrc(c, s)
             /\ props[c].cacheRequests
             /\ ThrewOnFetch(SetSrcResult(c, s), c)
             => /\ s \notin DOMAIN cacheStore'
                /\ state'[c].status = FAILED]_vars

\* ------------------------------------------------------------------ C7
C7_OnlyOwner(w, r) ==
    r.cacheRequests /\ r.src \in DOMAIN cacheStore =>
        /\ \A i \in DOMAIN w.events :
              w.events[i].type = "onError" /\ w.events[i].consumer = r.owner
        /\ \A q \in Range(cacheStore[r.src].queue) \ {r.owner} :
              /\ w.state[q] = state[q]
              /\ state[q].status = LOADING => w.state[q].status = LOADING

\* C7: when a fetch chain made with caching enabled is rejected, the only
\* calls are onError calls of the chain's owner: no queued callback runs,
\* no queued consumer is told of the error, and the state of every queued
\* consumer other than the owner is left as it was: one that is LOADING
\* stays LOADING.
C7_FailureOnlyToRequester == ForEveryRejection(C7_OnlyOwner)

\* a chain has just been rejected and the other consumer, which was queued
\* on its entry, is still LOADING
C7_Witness ==
    /\ last.op = "Reject"
    /\ state[last.consumer].status = FAILED
    /\ last.src \notin DOMAIN cacheStore
    /\ inflight = EmptyBag
    /\ \E q \in Consumers \ {last.consumer} :
          /\ lifecycle[q] = "mounted"
          /\ props[q] = [src |-> last.src, cacheRequests |-> TRUE]
          /\ state[q].status = LOADING

\* ------------------------------------------------------------------ C8
HandleLoadCalls(w) == SelectSeq(w.events, LAMBDA e : e.type = "handleLoad")

C8_FanOut(w, r, content) ==
    r.cacheRequests =>
        /\ r.src \in DOMAIN cacheStore
        /\ w.cacheStore[r.src] =
              [content |-> content, status |-> LOADED, queue |-> <<>>]
        /\ LET queue == cacheStore[r.src].queue
           IN  HandleLoadCalls(w) =
                  [i \in 1..(Len(queue) + 1) |->
                      [type |-> "handleLoad",
                       consumer |-> IF i = 1 THEN r.owner ELSE queue[i - 1],
                       content |-> content]]

\* C8: when a fetch chain made with caching enabled delivers, the entry of
\* its identifier is there and becomes LOADED with the delivered content
\* and an empty queue, and handleLoad is called with that content for the
\* owner and then once for each queued callback, in the order of the queue.
C8_DrainInOrder == ForEveryDelivery(C8_FanOut)

\* a chain has just delivered and the other consumer, which was queued on
\* its entry, is READY with the delivered content
C8_Witness ==
    /\ last.op = "Deliver"
    /\ last.src \in DOMAIN cacheStore
    /\ cacheStore[last.src].status = LOADED
    /\ cacheStore[last.src].queue = <<>>
    /\ \E q \in Consumers \ {last.consumer} :
          /\ props[q] = [src |-> last.src, cacheRequests |-> TRUE]
          /\ ~state[q].hasCache
          /\ state[q].status = READY
          /\ state[q].content = cacheStore[last.src].content
    /\ changes = 0

\* ------------------------------------------------------------------ C9
\* src is neither empty nor resolved without the network
IsRemote(src) == src # EmptyString /\ InlineSrc(src) = NoInline

C9_OwnRequest(w0, w1, c) ==
    LET src == w0.props[c].src
    IN  ~w0.props[c].cacheRequests /\ IsRemote(src) =>
            /\ EventsFor(w1, "fetch", c) =
                  <<[type |-> "fetch", consumer |-> c, src |-> src]>>
            /\ w1.cacheStore = w0.cacheStore
            /\ ~env.fetchThrows =>
                  w1.inflight = w0.inflight (+)
                      SetToBag({[owner |-> c, src |-> src,
                                 cacheRequests |-> FALSE]})

\* C9: a load of a remote identifier with caching disabled calls fetch,
\* whatever the cache holds for the identifier, and neither that load nor
\* the delivery or the rejection of its chain changes the cache.
C9_UncachedBypassesCache ==
    /\ ForEveryLoad(C9_OwnRequest, Sources)
    /\ ForEveryDelivery(LAMBDA w, r, content :
          ~r.cacheRequests => w.cacheStore = cacheStore)
    /\ ForEveryRejection(LAMBDA w, r :
          ~r.cacheRequests => w.cacheStore = cacheStore)

\* a consumer without caching has just been mounted with a src whose entry
\* is LOADED, and its own chain is in flight
C9_Witness ==
    /\ last.op = "Mount"
    /\ ~props[last.consumer].cacheRequests
    /\ last.src \in DOMAIN cacheStore
    /\ cacheStore[last.src].status = LOADED
    /\ BagIn([owner |-> last.consumer, src |-> last.src,
              cacheRequests |-> FALSE], inflight)
    /\ state[last.consumer].status = LOADING

\* ----------------------------------------------------------------- C10
\* C10: mounting a consumer with a src that matches the data-URI pattern or
\* holds "<svg" calls fetch for nothing and leaves the cache as it was; the
\* text handed to handleLoad is the decoded payload, or the src itself.
C10_InlineNeverFetches ==
    [][\A s \in SrcUniverse, u \in BOOLEAN :
          /\ Mount(1, s, u)
          /\ env.canUseDOM
          /\ env.supported
          /\ DataURIMatch(s).matched \/ Contains(s, TSvg)
          => /\ ~Fetched(MountResult(1, s, u), 1)
             /\ inflight' = inflight
             /\ cacheStore' = cacheStore
             /\ ~InlineSrc(s).thrown =>
                   HandleLoadCalls(MountResult(1, s, u)) =
                       <<[type |-> "handleLoad", consumer |-> 1,
                          content |-> InlineSrc(s).value]>>]_vars

\* ----------------------------------------------------------------- C11
Terminal == {READY, FAILED, UNSUPPORTED}

\* C11: no delivery and no rejection of a fetch chain, queue fan-out
\* included, changes the status of a consumer that is READY, FAILED or
\* UNSUPPORTED; only a change of its src does.
C11_TerminalIsFinal ==
    [][/\ \A r \in BagToSet(inflight) : \A content \in Bodies(r.src) :
             Deliver(r, content) =>
                 \A c \in Consumers :
                     state[c].status \in Terminal =>
                         state'[c].status = state[c].status
       /\ \A r \in BagToSet(inflight), m \in Rejections :
             Reject(r, m) =>
                 \A c \in Consumers :
                     state[c].status \in Terminal =>
                         state'[c].status = state[c].status]_vars

\* ----------------------------------------------------------------- C12
\* lines 384-416: what render returns for consumer c
render(c) ==
    IF ~env.canUseDOM THEN "loader"
    ELSE IF state[c].element.present THEN "element"
    ELSE IF state[c].status \in {UNSUPPORTED, FAILED} THEN "children"
    ELSE "loader"

\* C12: in a host with a DOM a mounted consumer renders its fallback
\* (children) when its status is FAILED or UNSUPPORTED, its loader when it
\* is PENDING or LOADING, and its element only when it is READY.
C12_RenderFollowsStatus ==
    \A c \in Consumers :
        lifecycle[c] = "mounted" /\ env.canUseDOM =>
            render(c) =
                CASE state[c].status \in {FAILED, UNSUPPORTED} -> "children"
                  [] state[c].status \in {PENDING, LOADING} -> "loader"
                  [] OTHER -> "element"

\* ----------------------------------------------------------------- C13
C13_AtMostOnce(w) ==
    \A c \in Consumers : Len(EventsFor(w, "onError", c)) <= 1

\* C13: a task that fails a consumer's load calls its onError once: no
\* mount, src change, delivery or rejection calls the onError of one
\* consumer more than once, and the delivery of a text that does not
\* convert to an active owner that is not queued calls it exactly once.
C13_OneNotification ==
    [][/\ \A c \in Consumers, s \in Sources, u \in BOOLEAN :
             Mount(c, s, u) => C13_AtMostOnce(MountResult(c, s, u))
       /\ \A c \in Consumers, s \in Sources :
             SetSrc(c, s) => C13_AtMostOnce(SetSrcResult(c, s))
       /\ \A r \in BagToSet(inflight), m \in Rejections :
             Reject(r, m) => C13_AtMostOnce(RejectResult(r, m))
       /\ \A r \in BagToSet(inflight) : \A content \in Bodies(r.src) :
             /\ Deliver(r, content)
             /\ ~CanConvert(content)
             /\ isActive[r.owner]
             /\ r.src \in DOMAIN cacheStore =>
                   r.owner \notin Range(cacheStore[r.src].queue)
             => Len(EventsFor(DeliverResult(r, content), "onError",
                              r.owner)) = 1]_vars

\* ----------------------------------------------------------------- C14
\* every onLoad call of world w for consumer c carries the flag isCached
C14_Flag(w, c, isCached) ==
    \A i \in DOMAIN w.events :
        w.events[i].type = "onLoad" /\ w.events[i].consumer = c =>
            w.events[i].isCached = isCached

\* the load of src by a consumer with caching (or without) is served by a
\* LOADED entry
C14_Stored(src, cacheRequests) ==
    /\ cacheRequests
    /\ src \in DOMAIN cacheStore
    /\ cacheStore[src].status = LOADED

\* C14: the flag given to onLoad is true when the content came from the
\* cache (the stored content of a LOADED entry at a mount or a src change,
\* or the fan-out of a delivery to a queued consumer) and false when it
\* came from the consumer's own request.
C14_CachedFlag ==
    [][/\ \A c \in Consumers, s \in Sources, u \in BOOLEAN :
             Mount(c, s, u) =>
                 C14_Flag(MountResult(c, s, u), c, C14_Stored(s, u))
       /\ \A c \in Consumers, s \in Sources :
             SetSrc(c, s) =>
                 C14_Flag(SetSrcResult(c, s), c,
                          C14_Stored(s, props[c].cacheRequests))
       /\ \A r \in BagToSet(inflight) : \A content \in Bodies(r.src) :
             Deliver(r, content) =>
                 \A c \in Consumers :
                     LET queued == /\ r.cacheRequests
                                   /\ r.src \in DOMAIN cacheStore
                                   /\ c \in Range(cacheStore[r.src].queue)
                     IN  /\ c # r.owner =>
                             C14_Flag(DeliverResult(r, content), c, TRUE)
                         /\ c = r.owner /\ ~queued =>
                             C14_Flag(DeliverResult(r, content), c, FALSE)]_vars

\* ----------------------------------------------------------------- C15
C15_OthersServed(w, r, content) ==
    r.cacheRequests /\ ~isActive[r.owner] =>
        /\ w.state[r.owner] = state[r.owner]
        /\ EventsFor(w, "onLoad", r.owner) = <<>>
        /\ EventsFor(w, "onError", r.owner) = <<>>
        /\ r.src \in DOMAIN w.cacheStore
        /\ w.cacheStore[r.src].status = LOADED
        /\ w.cacheStore[r.src].content = content
        /\ \A q \in Range(cacheStore[r.src].queue) :
              isActive[q] =>
                  /\ w.state[q].content = content
                  /\ CanConvert(content) =>
                        /\ w.state[q].status = READY
                        /\ w.state[q].element = Element(content)
                        /\ EventsFor(w, "onLoad", q) # <<>>
                  /\ ~CanConvert(content) => w.state[q].status = FAILED

\* C15: when a fetch chain made with caching delivers after its owner was
\* unmounted, the owner's state is left alone and none of its callbacks is
\* called, the entry of the identifier becomes LOADED with the delivered
\* content, and every active consumer queued on the entry receives that
\* content and becomes READY (FAILED when the text is no SVG).
C15_TeardownDropsOnlyOwner == ForEveryDelivery(C15_OthersServed)

\* a chain whose owner was unmounted while loading has just delivered, and
\* the other consumer, which was queued, is READY with the stored content
C15_Witness ==
    /\ last.op = "Deliver"
    /\ lifecycle[last.consumer] = "unmounted"
    /\ state[last.consumer].status = LOADING
    /\ last.src \in DOMAIN cacheStore
    /\ cacheStore[last.src].status = LOADED
    /\ \E q \in Consumers \ {last.consumer} :
          /\ lifecycle[q] = "mounted"
          /\ props[q] = [src |-> last.src, cacheRequests |-> TRUE]
          /\ state[q].status = READY
          /\ state[q].content = cacheStore[last.src].content

\* ------------------------------------------------- updateSVGAttributes
\* tokens of attribute values
THashMark == "#"
TUrlOpen == "url("
TUrlClose == ")"
TX == "x"
TPng == "a.png"
TSep == "__"
THash == "T"           \* this.hash: props.uniqueHash

\* line 148: baseURL = ''
DefaultBaseURL == <<>>

\* line 149
replaceableAttributes == <<"id", "href", "xlink:href", "xlink:role", "xlink:arcrole">>

\* line 150
linkAttributes == {"href", "xlink:href"}

\* a link attribute that is not empty and holds "#"; the others are taken
\* for data values
isDataValueNoFragment(name, value) ==
    name \in linkAttributes /\ (value = <<>> \/ Contains(value, THashMark))

\* lines 151-152
isDataValue(name, value) ==
    name \in linkAttributes
        /\ (IF value # <<>> THEN ~Contains(value, THashMark) ELSE FALSE)

\* lines 162-166: the leftmost url(...) of the value, when it holds
\* something, becomes url(<baseURL>...__<hash>)
UrlRewritten(value, baseURL, hash) ==
    LET o == IndexFrom(value, TUrlOpen, 1)
        c == IF o = 0 THEN 0 ELSE IndexFrom(value, TUrlClose, o + 1)
    IN  IF o = 0 \/ c = 0 \/ c = o + 1 THEN value
        ELSE SubSeq(value, 1, o) \o baseURL \o SubSeq(value, o + 1, c - 1)
                 \o <<TSep, hash>> \o SubSeq(value, c, Len(value))

\* `${attribute.value}__${this.hash}`
Suffixed(value, hash) == value \o <<TSep, hash>>

\* lines 159-178: the attributes of one child element
UpdatedAttributes(attrs, baseURL, hash) ==
    LET attributes == [n \in DOMAIN attrs |-> UrlRewritten(attrs[n], baseURL, hash)]
    IN  [n \in DOMAIN attrs |->
            IF n \in Range(replaceableAttributes) /\ ~isDataValue(n, attributes[n])
            THEN Suffixed(attributes[n], hash)
            ELSE attributes[n]]

RECURSIVE updateSVGAttributes(_, _, _, _)
\* lines 147-188
updateSVGAttributes(node, uniquifyIDs, baseURL, hash) ==
    IF ~uniquifyIDs THEN node
    ELSE [node EXCEPT !.children =
             [i \in DOMAIN @ |->
                 LET d == @[i]
                     d1 == IF DOMAIN d.attrs # {}
                           THEN [d EXCEPT !.attrs =
                                    UpdatedAttributes(@, baseURL, hash)]
                           ELSE d
                 IN  IF Len(d1.children) > 0
                     THEN updateSVGAttributes(d1, uniquifyIDs, baseURL, hash)
                     ELSE d1]]

\* attribute values: an identifier, a fragment reference, a file, a url()
VId == <<TX>>
VFragment == <<THashMark, TX>>
VFile == <<TPng>>
VUrl == <<TUrlOpen, THashMark, TX, TUrlClose>>

NoAttrs == [n \in {} |-> <<>>]

\* the attributes an element of a document may carry
AttrMaps ==
    {NoAttrs,
     [n \in {"id"} |-> VId],
     [n \in {"href"} |-> VFragment],
     [n \in {"xlink:href"} |-> VFile],
     [n \in {"id", "href"} |-> IF n = "id" THEN VId ELSE VFragment],
     [n \in {"fill"} |-> VUrl]}

RECURSIVE Elements(_)
\* the elements with at most depth levels
Elements(depth) ==
    IF depth = 0 THEN {}
    ELSE {[attrs |-> a, children |-> k] :
             a \in AttrMaps,
             k \in UNION {[1..n -> Elements(depth - 1)] : n \in 0..MaxChildren}}

\* the svg nodes convert() can hand to updateSVGAttributes
SvgNodes ==
    {[attrs |-> [n \in {"id"} |-> VId], children |-> k] :
        k \in UNION {[1..n -> Elements(MaxDepth)] : n \in 0..MaxChildren}}

InitTransform ==
    /\ env = [canUseDOM |-> TRUE, supported |-> TRUE, fetchThrows |-> FALSE]
    /\ cacheStore = EmptyStore
    /\ props = [c \in Consumers |-> DefaultProps]
    /\ state = [c \in Consumers |-> InitialState(EmptyStore, EmptyString, TRUE)]
    /\ isActive = [c \in Consumers |-> FALSE]
    /\ lifecycle = [c \in Consumers |-> "unborn"]
    /\ inflight = EmptyBag
    /\ changes = 0
    /\ last = Task("init", 0, EmptyString)
    /\ \E node \in SvgNodes, uniquifyIDs \in BOOLEAN :
          svg = [stage |-> "converted", node |-> node, svg |-> node,
                 uniquifyIDs |-> uniquifyIDs]

\* line 201: const svg = this.updateSVGAttributes(node)
UpdateSVG ==
    /\ svg.stage = "converted"
    /\ svg' = [svg EXCEPT !.svg = updateSVGAttributes(svg.node, svg.uniquifyIDs,
                                                      DefaultBaseURL, THash),
                          !.stage = "updated"]
    /\ UNCHANGED <<env, cacheStore, props, state, isActive, lifecycle,
                   inflight, changes, last>>

NextTransform == UpdateSVG

SpecTransform == InitTransform /\ [][NextTransform]_vars

\* ----------------------------------------------------------------- C16
\* the paths (child indices from the svg node down) of descendants
Paths == UNION {[1..n -> 1..MaxChildren] : n \in 1..MaxDepth}

RECURSIVE HasPath(_, _)
HasPath(node, path) ==
    \/ path = <<>>
    \/ /\ Head(path) <= Len(node.children)
       /\ HasPath(node.children[Head(path)], Tail(path))

RECURSIVE NodeAt(_, _)
NodeAt(node, path) ==
    IF path = <<>> THEN node
    ELSE NodeAt(node.children[Head(path)], Tail(path))

HoldsUrl(value) == Contains(value, TUrlOpen)

\* P(d, e) for every descendant d of the node given to updateSVGAttributes
\* with uniquifyIDs set, and the element e at its place in the result
ForEveryDescendant(P(_, _)) ==
    svg.stage = "updated" /\ svg.uniquifyIDs =>
        \A path \in Paths :
            HasPath(svg.node, path) =>
                /\ HasPath(svg.svg, path)
                /\ P(NodeAt(svg.node, path), NodeAt(svg.svg, path))

C16_IdSuffixed(d, e) ==
    /\ DOMAIN e.attrs = DOMAIN d.attrs
    /\ Len(e.children) = Len(d.children)
    /\ "id" \in DOMAIN d.attrs /\ ~HoldsUrl(d.attrs["id"]) =>
          e.attrs["id"] = d.attrs["id"] \o <<TSep, THash>>

C17_Kept(w) ==
    \A s \in DOMAIN cacheStore :
        cacheStore[s].status = LOADED =>
            /\ s \in DOMAIN w.cacheStore
            /\ w.cacheStore[s].status = LOADED
            /\ w.cacheStore[s].content = cacheStore[s].content

\* C17: no task (mount, src change, unmount, delivery, rejection) removes
\* a cache entry that is LOADED, changes its status or changes its content.
C17_LoadedIsKept == ForEveryTask(C17_Kept, Sources)

\* a request made without caching has just been rejected while the entry
\* of its identifier is LOADED
C17_Witness ==
    /\ last.op = "Reject"
    /\ ~props[last.consumer].cacheRequests
    /\ props[last.consumer].src = last.src
    /\ last.src \in DOMAIN cacheStore
    /\ cacheStore[last.src].status = LOADED
    /\ cacheStore[last.src].content # EmptyString

\* ----------------------------------------------------------------- C18
\* C18: in every reachable state a cache entry that is LOADING has a fetch
\* chain made with caching in flight for its identifier.
C18_LoadingHasRequest ==
    \A s \in DOMAIN cacheStore :
        cacheStore[s].status = LOADING => ChainsFor(inflight, s, TRUE) >= 1

\* ----------------------------------------------------------------- C19
\* how many times consumer c stands in the queues of the cache entries
Registrations(c) ==
    Cardinality(UNION {{<<s, i>> : i \in {j \in DOMAIN cacheStore[s].queue :
                                              cacheStore[s].queue[j] = c}} :
                       s \in DOMAIN cacheStore})

\* C19: in every reachable state a consumer stands at most once in the
\* queues of all cache entries together.
C19_QueuedAtMostOnce == \A c \in Consumers : Registrations(c) <= 1

\* ----------------------------------------------------------------- C20
C20_Resets(w0, w1, c) ==
    w1.state[c].status = LOADING =>
        /\ w1.state[c].content = EmptyString
        /\ w1.state[c].element = NoElement

\* C20: in every reachable state a consumer that is PENDING or LOADING has
\* an empty content and no element, and one that is READY has an element;
\* and every load that leaves the consumer LOADING has reset both.
C20_StateShape ==
    /\ \A c \in Consumers :
          /\ state[c].status \in {PENDING, LOADING} =>
                /\ state[c].content = EmptyString
                /\ state[c].element = NoElement
          /\ state[c].status = READY => state[c].element.present
    /\ ForEveryLoad(C20_Resets, Sources)

\* the only instance there is was mounted with another src, whose entry is
\* LOADED with the document it rendered, and its one src change has just
\* left it LOADING with no content and no element
C20_Witness ==
    /\ last.op = "SetSrc"
    /\ changes = 1
    /\ lifecycle = [c \in Consumers |-> IF c = 1 THEN "mounted" ELSE "unborn"]
    /\ state[1].status = LOADING
    /\ state[1].content = EmptyString
    /\ state[1].element = NoElement
    /\ \E s \in DOMAIN cacheStore :
          /\ s # props[1].src
          /\ cacheStore[s].status = LOADED
          /\ CanConvert(cacheStore[s].content)

====
